---- MODULE Spec2Model ----
\* Model of scripts/generate_marking_ds.py: the template extractor, the
\* localization helpers, the document renderer and the run of main().
\* Text is a sequence of Unicode code points, so that replace/strip/split act
\* on characters as they do in the program.
EXTENDS Integers, Sequences, FiniteSets, TLC

VARIABLES pc, args, env, refdoc, template, doc, created, err, stdout

vars == <<pc, args, env, refdoc, template, doc, created, err, stdout>>

-----------------------------------------------------------------------------
\* Characters the program names.

\* "\n"
LF == 10
\* "\r"
CR == 13
\* "\t"
TAB == 9
\* " "
SPACE == 32
\* "-"
HYPHEN == 45
\* "."
DOT == 46
\* "\xa0", the non-breaking space
NBSP == 160
\* the em dash of strip(" -—\t")
EMDASH == 8212
\* "\u2028", the line separator
LSEP == 8232

\* The characters str.strip() with no argument removes (str.isspace()).
Whitespace ==
    {9, 10, 11, 12, 13, 28, 29, 30, 31, 32, 133, 160, 5760} \cup (8192..8202)
        \cup {8232, 8233, 8239, 8287, 12288}

\* The strip set without the em dash.
BulletStripChars_no_emdash == {SPACE, HYPHEN, TAB}

\* The characters of x.strip(" -—\t").
BulletStripChars == {SPACE, HYPHEN, EMDASH, TAB}

\* The characters of the pattern [\n\r]+.
LineBreaks == {LF, CR}

-----------------------------------------------------------------------------
\* String primitives of Python, on sequences of code points.

\* str.replace(a, b) for single characters a and b.
replace(s, a, b) == [i \in 1..Len(s) |-> IF s[i] = a THEN b ELSE s[i]]

\* str.lstrip(chars) in the place of str.strip(chars).
lstrip_only(s, cs) ==
    LET keep == {i \in 1..Len(s) : s[i] \notin cs}
    IN  IF keep = {} THEN <<>>
        ELSE SubSeq(s, CHOOSE i \in keep : \A j \in keep : i <= j, Len(s))

\* str.strip(chars): drop the leading and the trailing characters that are in cs.
strip(s, cs) ==
    LET keep == {i \in 1..Len(s) : s[i] \notin cs}
    IN  IF keep = {} THEN <<>>
        ELSE LET a == CHOOSE i \in keep : \A j \in keep : i <= j
                 b == CHOOSE i \in keep : \A j \in keep : j <= i
             IN  SubSeq(s, a, b)

\* str.split(sep) for a single character sep: every occurrence separates, and
\* empty pieces are kept.
RECURSIVE split(_, _)
split(s, sep) ==
    LET hits == {i \in 1..Len(s) : s[i] = sep}
    IN  IF hits = {} THEN <<s>>
        ELSE LET i == CHOOSE k \in hits : \A j \in hits : k <= j
             IN  <<SubSeq(s, 1, i - 1)>> \o split(SubSeq(s, i + 1, Len(s)), sep)

\* re.split(r"[\n\r]+", s): every maximal run of characters of seps separates;
\* a run at the start or at the end leaves an empty piece there.
RECURSIVE re_split(_, _)
re_split(s, seps) ==
    LET hits == {i \in 1..Len(s) : s[i] \in seps}
    IN  IF hits = {} THEN <<s>>
        ELSE LET i == CHOOSE k \in hits : \A j \in hits : k <= j
                 rest == {k \in (i + 1)..Len(s) : s[k] \notin seps}
                 j == IF rest = {} THEN Len(s) + 1
                      ELSE CHOOSE k \in rest : \A l \in rest : k <= l
             IN  <<SubSeq(s, 1, i - 1)>> \o re_split(SubSeq(s, j, Len(s)), seps)

\* s[:-n] for n > 0.
drop_last(s, n) == IF Len(s) <= n THEN <<>> ELSE SubSeq(s, 1, Len(s) - n)

\* [f(x) for x in xs if keep(x)] for the two list comprehensions of the program.
RECURSIVE filter_nonblank(_)
filter_nonblank(xs) ==
    IF xs = <<>> THEN <<>>
    ELSE IF strip(Head(xs), Whitespace) # <<>>
         THEN <<Head(xs)>> \o filter_nonblank(Tail(xs))
         ELSE filter_nonblank(Tail(xs))

-----------------------------------------------------------------------------
\* Localization helpers.

\* "01": "января" ... "12": "декабря"
\* The table with the nominative "март" for "03".
MONTHS_march_nominative ==
    (<<48, 49>> :> <<1103, 1085, 1074, 1072, 1088, 1103>>) @@ (<<48, 50>> :> <<1092, 1077, 1074, 1088, 1072, 1083,
                                                                               1103>>) @@ (<<48, 51>> :> <<1084, 1072, 1088, 1090>>) @@
    (<<48, 52>> :> <<1072, 1087, 1088, 1077, 1083, 1103>>) @@ (<<48, 53>> :> <<1084, 1072, 1103>>) @@ (<<48, 54>> :> <<1080, 1102, 1085, 1103>>) @@
    (<<48, 55>> :> <<1080, 1102, 1083, 1103>>) @@ (<<48, 56>> :> <<1072, 1074, 1075, 1091, 1089, 1090,
                                                                   1072>>) @@ (<<48, 57>> :> <<1089, 1077, 1085, 1090, 1103, 1073,
                                                                                               1088, 1103>>) @@
    (<<49, 48>> :> <<1086, 1082, 1090, 1103, 1073, 1088, 1103>>) @@ (<<49, 49>> :> <<1085, 1086, 1103, 1073, 1088, 1103>>) @@ (<<49, 50>> :> <<1076, 1077, 1082, 1072, 1073, 1088,
                                                                                                                                               1103>>)

MONTHS ==
    (<<48, 49>> :> <<1103, 1085, 1074, 1072, 1088, 1103>>) @@ (<<48, 50>> :> <<1092, 1077, 1074, 1088, 1072, 1083,
                                                                               1103>>) @@ (<<48, 51>> :> <<1084, 1072, 1088, 1090, 1072>>) @@
    (<<48, 52>> :> <<1072, 1087, 1088, 1077, 1083, 1103>>) @@ (<<48, 53>> :> <<1084, 1072, 1103>>) @@ (<<48, 54>> :> <<1080, 1102, 1085, 1103>>) @@
    (<<48, 55>> :> <<1080, 1102, 1083, 1103>>) @@ (<<48, 56>> :> <<1072, 1074, 1075, 1091, 1089, 1090,
                                                                   1072>>) @@ (<<48, 57>> :> <<1089, 1077, 1085, 1090, 1103, 1073,
                                                                                               1088, 1103>>) @@
    (<<49, 48>> :> <<1086, 1082, 1090, 1103, 1073, 1088, 1103>>) @@ (<<49, 49>> :> <<1085, 1086, 1103, 1073, 1088, 1103>>) @@ (<<49, 50>> :> <<1076, 1077, 1082, 1072, 1073, 1088,
                                                                                                                                               1103>>)

\* clean() without its strip().
clean_no_strip(text) == replace(replace(text, LSEP, LF), NBSP, SPACE)

clean(text) == strip(replace(replace(text, LSEP, LF), NBSP, SPACE), Whitespace)

\* format_ru_date unpacking date.split(".")[:3]: parts after the third are ignored.
format_ru_date_raises_first_three(date) ==
    LET parts == split(date, DOT)
    IN  IF Len(parts) < 3 THEN "ValueError"
        ELSE IF parts[2] \notin DOMAIN MONTHS THEN "KeyError"
        ELSE "none"

\* The exception format_ru_date raises on date, or "none": the unpacking of the
\* split into three names raises ValueError, the lookup MONTHS[month] KeyError.
format_ru_date_raises(date) ==
    LET parts == split(date, DOT)
    IN  IF Len(parts) # 3 THEN "ValueError"
        ELSE IF parts[2] \notin DOMAIN MONTHS THEN "KeyError"
        ELSE "none"

\* f"«{day}» {MONTHS[month]} {year} года", where it does not raise.
format_ru_date(date) ==
    LET parts == split(date, DOT)
        day == parts[1]
        month == parts[2]
        year == parts[3]
    IN  <<171>> \o day \o <<187, 32>> \o MONTHS[month] \o <<32>> \o year \o <<32, 1075, 1086, 1076, 1072>>

agreement_label_dative(kind) ==
    IF kind = "agent" THEN <<1072, 1075, 1077, 1085, 1090, 1089, 1082, 1086, 1084, 1091, 32,
                             1076, 1086, 1075, 1086, 1074, 1086, 1088, 1091>> ELSE <<1076, 1086, 1075, 1086, 1074, 1086,
                                                                                     1088, 1091>>

\* The genitive label returning the dative phrase for "agent".
agreement_label_genitive_as_dative(kind) ==
    IF kind = "agent" THEN <<1072, 1075, 1077, 1085, 1090, 1089, 1082, 1086, 1084, 1091, 32,
                             1076, 1086, 1075, 1086, 1074, 1086, 1088, 1091>> ELSE <<1076, 1086, 1075, 1086, 1074, 1086,
                                                                                     1088, 1072>>

agreement_label_genitive(kind) ==
    IF kind = "agent" THEN <<1072, 1075, 1077, 1085, 1090, 1089, 1082, 1086, 1075, 1086, 32,
                             1076, 1086, 1075, 1086, 1074, 1086, 1088, 1072>> ELSE <<1076, 1086, 1075, 1086, 1074, 1086,
                                                                                     1088, 1072>>

-----------------------------------------------------------------------------
\* Template extractor.

\* p[i] read as if the list were indexed from 1.
At_from_one(p, i) == p[i]

\* p[i] of a Python list, indexed from 0.
At(p, i) == p[i + 1]

\* The clause keys of the dictionary extract_template_blocks returns.
ClauseKeys ==
    {"h1", "p12", "bullets", "h2", "p21", "p22", "p23", "h3", "p31", "p32",
     "h4", "p41", "p42", "p43", "h5"}

\* "1. Предмет соглашения"
Fallback_h1 == <<49, 46, 32, 1055, 1088, 1077, 1076, 1084, 1077, 1090, 32, 1089, 1086, 1075,
                 1083, 1072, 1096, 1077, 1085, 1080, 1103>>
\* "1.2. Услуги по сопровождению обязательной маркировки рекламы включают:"
Fallback_p12 == <<49, 46, 50, 46, 32, 1059, 1089, 1083, 1091, 1075, 1080, 32, 1087, 1086, 32,
                  1089, 1086, 1087, 1088, 1086, 1074, 1086, 1078, 1076, 1077, 1085, 1080, 1102,
                  32, 1086, 1073, 1103, 1079, 1072, 1090, 1077, 1083, 1100, 1085, 1086, 1081,
                  32, 1084, 1072, 1088, 1082, 1080, 1088, 1086, 1074, 1082, 1080, 32, 1088,
                  1077, 1082, 1083, 1072, 1084, 1099, 32, 1074, 1082, 1083, 1102, 1095, 1072,
                  1102, 1090, 58>>
\* "— администрирование размещений, подлежащих обязательной маркировке;\n"
\* "— взаимодействие с рекламной платформой;\n"
\* "— контроль корректности передачи данных;\n"
\* "— формирование и сверку отчётности по маркируемой рекламе."
Fallback_bullets == <<8212, 32, 1072, 1076, 1084, 1080, 1085, 1080, 1089, 1090, 1088, 1080,
                      1088, 1086, 1074, 1072, 1085, 1080, 1077, 32, 1088, 1072, 1079, 1084,
                      1077, 1097, 1077, 1085, 1080, 1081, 44, 32, 1087, 1086, 1076, 1083, 1077,
                      1078, 1072, 1097, 1080, 1093, 32, 1086, 1073, 1103, 1079, 1072, 1090,
                      1077, 1083, 1100, 1085, 1086, 1081, 32, 1084, 1072, 1088, 1082, 1080,
                      1088, 1086, 1074, 1082, 1077, 59, 10, 8212, 32, 1074, 1079, 1072, 1080,
                      1084, 1086, 1076, 1077, 1081, 1089, 1090, 1074, 1080, 1077, 32, 1089, 32,
                      1088, 1077, 1082, 1083, 1072, 1084, 1085, 1086, 1081, 32, 1087, 1083,
                      1072, 1090, 1092, 1086, 1088, 1084, 1086, 1081, 59, 10, 8212, 32, 1082,
                      1086, 1085, 1090, 1088, 1086, 1083, 1100, 32, 1082, 1086, 1088, 1088,
                      1077, 1082, 1090, 1085, 1086, 1089, 1090, 1080, 32, 1087, 1077, 1088,
                      1077, 1076, 1072, 1095, 1080, 32, 1076, 1072, 1085, 1085, 1099, 1093, 59,
                      10, 8212, 32, 1092, 1086, 1088, 1084, 1080, 1088, 1086, 1074, 1072, 1085,
                      1080, 1077, 32, 1080, 32, 1089, 1074, 1077, 1088, 1082, 1091, 32, 1086,
                      1090, 1095, 1105, 1090, 1085, 1086, 1089, 1090, 1080, 32, 1087, 1086, 32,
                      1084, 1072, 1088, 1082, 1080, 1088, 1091, 1077, 1084, 1086, 1081, 32,
                      1088, 1077, 1082, 1083, 1072, 1084, 1077, 46>>
\* "2. Стоимость услуг и порядок расчётов"
Fallback_h2 == <<50, 46, 32, 1057, 1090, 1086, 1080, 1084, 1086, 1089, 1090, 1100, 32, 1091,
                 1089, 1083, 1091, 1075, 32, 1080, 32, 1087, 1086, 1088, 1103, 1076, 1086, 1082,
                 32, 1088, 1072, 1089, 1095, 1105, 1090, 1086, 1074>>
\* "2.1. Стоимость Услуг маркировки составляет 3% от объёма размещений, ..."
Fallback_p21 == <<50, 46, 49, 46, 32, 1057, 1090, 1086, 1080, 1084, 1086, 1089, 1090, 1100,
                  32, 1059, 1089, 1083, 1091, 1075, 32, 1084, 1072, 1088, 1082, 1080, 1088,
                  1086, 1074, 1082, 1080, 32, 1089, 1086, 1089, 1090, 1072, 1074, 1083, 1103,
                  1077, 1090, 32, 51, 37, 32, 1086, 1090, 32, 1086, 1073, 1098, 1105, 1084,
                  1072, 32, 1088, 1072, 1079, 1084, 1077, 1097, 1077, 1085, 1080, 1081, 44, 32,
                  1087, 1086, 1076, 1083, 1077, 1078, 1072, 1097, 1080, 1093, 32, 1086, 1073,
                  1103, 1079, 1072, 1090, 1077, 1083, 1100, 1085, 1086, 1081, 32, 1084, 1072,
                  1088, 1082, 1080, 1088, 1086, 1074, 1082, 1077, 32, 40, 1079, 1072, 32, 1080,
                  1089, 1082, 1083, 1102, 1095, 1077, 1085, 1080, 1077, 1084, 32, 1087, 1086,
                  1080, 1089, 1082, 1086, 1074, 1099, 1093, 32, 1088, 1072, 1079, 1084, 1077,
                  1097, 1077, 1085, 1080, 1081, 41, 44, 32, 1089, 1086, 1075, 1083, 1072, 1089,
                  1085, 1086, 32, 1086, 1092, 1080, 1094, 1080, 1072, 1083, 1100, 1085, 1099,
                  1084, 32, 1076, 1072, 1085, 1085, 1099, 1084, 32, 1088, 1077, 1082, 1083,
                  1072, 1084, 1085, 1086, 1081, 32, 1087, 1083, 1072, 1090, 1092, 1086, 1088,
                  1084, 1099, 46>>
\* "2.2. Расчёт стоимости производится на основании отчёта платформы, ..."
Fallback_p22 == <<50, 46, 50, 46, 32, 1056, 1072, 1089, 1095, 1105, 1090, 32, 1089, 1090,
                  1086, 1080, 1084, 1086, 1089, 1090, 1080, 32, 1087, 1088, 1086, 1080, 1079,
                  1074, 1086, 1076, 1080, 1090, 1089, 1103, 32, 1085, 1072, 32, 1086, 1089,
                  1085, 1086, 1074, 1072, 1085, 1080, 1080, 32, 1086, 1090, 1095, 1105, 1090,
                  1072, 32, 1087, 1083, 1072, 1090, 1092, 1086, 1088, 1084, 1099, 44, 32, 1092,
                  1086, 1088, 1084, 1080, 1088, 1091, 1077, 1084, 1086, 1075, 1086, 32, 1074,
                  32, 1084, 1077, 1089, 1103, 1094, 1077, 44, 32, 1089, 1083, 1077, 1076, 1091,
                  1102, 1097, 1077, 1084, 32, 1079, 1072, 32, 1086, 1090, 1095, 1105, 1090,
                  1085, 1099, 1084, 46>>
\* "2.3. В случае корректировок платформы перерасчёт стоимости производится ..."
Fallback_p23 == <<50, 46, 51, 46, 32, 1042, 32, 1089, 1083, 1091, 1095, 1072, 1077, 32, 1082,
                  1086, 1088, 1088, 1077, 1082, 1090, 1080, 1088, 1086, 1074, 1086, 1082, 32,
                  1087, 1083, 1072, 1090, 1092, 1086, 1088, 1084, 1099, 32, 1087, 1077, 1088,
                  1077, 1088, 1072, 1089, 1095, 1105, 1090, 32, 1089, 1090, 1086, 1080, 1084,
                  1086, 1089, 1090, 1080, 32, 1087, 1088, 1086, 1080, 1079, 1074, 1086, 1076,
                  1080, 1090, 1089, 1103, 32, 1074, 32, 1089, 1083, 1077, 1076, 1091, 1102,
                  1097, 1077, 1084, 32, 1086, 1090, 1095, 1105, 1090, 1085, 1086, 1084, 32,
                  1087, 1077, 1088, 1080, 1086, 1076, 1077, 46>>
\* "3. Сроки оплаты"
Fallback_h3 == <<51, 46, 32, 1057, 1088, 1086, 1082, 1080, 32, 1086, 1087, 1083, 1072, 1090,
                 1099>>
\* "3.1. Принципал обязуется оплатить сумму, рассчитанную по п.2.2, ..."
Fallback_p31 == <<51, 46, 49, 46, 32, 1055, 1088, 1080, 1085, 1094, 1080, 1087, 1072, 1083,
                  32, 1086, 1073, 1103, 1079, 1091, 1077, 1090, 1089, 1103, 32, 1086, 1087,
                  1083, 1072, 1090, 1080, 1090, 1100, 32, 1089, 1091, 1084, 1084, 1091, 44, 32,
                  1088, 1072, 1089, 1089, 1095, 1080, 1090, 1072, 1085, 1085, 1091, 1102, 32,
                  1087, 1086, 32, 1087, 46, 50, 46, 50, 44, 32, 1074, 32, 1090, 1077, 1095,
                  1077, 1085, 1080, 1077, 32, 49, 48, 32, 1082, 1072, 1083, 1077, 1085, 1076,
                  1072, 1088, 1085, 1099, 1093, 32, 1076, 1085, 1077, 1081, 32, 1089, 32, 1084,
                  1086, 1084, 1077, 1085, 1090, 1072, 32, 1074, 1099, 1089, 1090, 1072, 1074,
                  1083, 1077, 1085, 1080, 1103, 32, 1040, 1075, 1077, 1085, 1090, 1086, 1084,
                  32, 1089, 1095, 1105, 1090, 1072, 32, 1085, 1072, 32, 1086, 1087, 1083, 1072,
                  1090, 1091, 46>>
\* "3.2. Оплата производится на расчётный счёт Агента, указанный в Договоре, ..."
Fallback_p32 == <<51, 46, 50, 46, 32, 1054, 1087, 1083, 1072, 1090, 1072, 32, 1087, 1088,
                  1086, 1080, 1079, 1074, 1086, 1076, 1080, 1090, 1089, 1103, 32, 1085, 1072,
                  32, 1088, 1072, 1089, 1095, 1105, 1090, 1085, 1099, 1081, 32, 1089, 1095,
                  1105, 1090, 32, 1040, 1075, 1077, 1085, 1090, 1072, 44, 32, 1091, 1082, 1072,
                  1079, 1072, 1085, 1085, 1099, 1081, 32, 1074, 32, 1044, 1086, 1075, 1086,
                  1074, 1086, 1088, 1077, 44, 32, 1089, 32, 1086, 1073, 1103, 1079, 1072, 1090,
                  1077, 1083, 1100, 1085, 1086, 1081, 32, 1089, 1089, 1099, 1083, 1082, 1086,
                  1081, 32, 1085, 1072, 32, 1085, 1086, 1084, 1077, 1088, 32, 1080, 32, 1076,
                  1072, 1090, 1091, 32, 1085, 1072, 1089, 1090, 1086, 1103, 1097, 1077, 1075,
                  1086, 32, 1044, 1086, 1087, 1086, 1083, 1085, 1080, 1090, 1077, 1083, 1100,
                  1085, 1086, 1075, 1086, 32, 1089, 1086, 1075, 1083, 1072, 1096, 1077, 1085,
                  1080, 1103, 46>>
\* "4. Прочие условия"
Fallback_h4 == <<52, 46, 32, 1055, 1088, 1086, 1095, 1080, 1077, 32, 1091, 1089, 1083, 1086,
                 1074, 1080, 1103>>
\* "4.1. Настоящее Дополнительное соглашение является неотъемлемой частью Договора."
Fallback_p41 == <<52, 46, 49, 46, 32, 1053, 1072, 1089, 1090, 1086, 1103, 1097, 1077, 1077,
                  32, 1044, 1086, 1087, 1086, 1083, 1085, 1080, 1090, 1077, 1083, 1100, 1085,
                  1086, 1077, 32, 1089, 1086, 1075, 1083, 1072, 1096, 1077, 1085, 1080, 1077,
                  32, 1103, 1074, 1083, 1103, 1077, 1090, 1089, 1103, 32, 1085, 1077, 1086,
                  1090, 1098, 1077, 1084, 1083, 1077, 1084, 1086, 1081, 32, 1095, 1072, 1089,
                  1090, 1100, 1102, 32, 1044, 1086, 1075, 1086, 1074, 1086, 1088, 1072, 46>>
\* "4.2. Все остальные условия Договора остаются без изменений и сохраняют силу."
Fallback_p42 == <<52, 46, 50, 46, 32, 1042, 1089, 1077, 32, 1086, 1089, 1090, 1072, 1083,
                  1100, 1085, 1099, 1077, 32, 1091, 1089, 1083, 1086, 1074, 1080, 1103, 32,
                  1044, 1086, 1075, 1086, 1074, 1086, 1088, 1072, 32, 1086, 1089, 1090, 1072,
                  1102, 1090, 1089, 1103, 32, 1073, 1077, 1079, 32, 1080, 1079, 1084, 1077,
                  1085, 1077, 1085, 1080, 1081, 32, 1080, 32, 1089, 1086, 1093, 1088, 1072,
                  1085, 1103, 1102, 1090, 32, 1089, 1080, 1083, 1091, 46>>
\* "4.3. Настоящее Дополнительное соглашение вступает в силу с момента подписания ..."
Fallback_p43 == <<52, 46, 51, 46, 32, 1053, 1072, 1089, 1090, 1086, 1103, 1097, 1077, 1077,
                  32, 1044, 1086, 1087, 1086, 1083, 1085, 1080, 1090, 1077, 1083, 1100, 1085,
                  1086, 1077, 32, 1089, 1086, 1075, 1083, 1072, 1096, 1077, 1085, 1080, 1077,
                  32, 1074, 1089, 1090, 1091, 1087, 1072, 1077, 1090, 32, 1074, 32, 1089, 1080,
                  1083, 1091, 32, 1089, 32, 1084, 1086, 1084, 1077, 1085, 1090, 1072, 32, 1087,
                  1086, 1076, 1087, 1080, 1089, 1072, 1085, 1080, 1103, 32, 1086, 1073, 1077,
                  1080, 1084, 1080, 32, 1089, 1090, 1086, 1088, 1086, 1085, 1072, 1084, 1080,
                  46>>
\* "5. Подписи сторон"
Fallback_h5 == <<53, 46, 32, 1055, 1086, 1076, 1087, 1080, 1089, 1080, 32, 1089, 1090, 1086,
                 1088, 1086, 1085>>

\* The guard written len(p) >= i.
reaches_ge(p, i) == Len(p) >= i

\* The guard len(p) > i of a slot.
reaches(p, i) == Len(p) > i

\* p[i] if len(p) > i else fallback
slot(p, i, fallback) == IF reaches(p, i) THEN At(p, i) ELSE fallback

\* The positions the dictionary reads.
SlotIndices == {6} \cup (8..21)

\* The exception the dictionary display raises, or "none": p[i] raises
\* IndexError when a guard lets through an i that is no index of the list.
extract_raises(paragraphs) ==
    IF \E i \in SlotIndices : reaches(paragraphs, i) /\ ~(i < Len(paragraphs))
    THEN "IndexError"
    ELSE "none"

\* The dictionary extract_template_blocks builds from the paragraphs of the
\* reference document that Document(template_path) has read.
extract_template_blocks(paragraphs) ==
    LET p == [i \in 1..Len(paragraphs) |-> clean(paragraphs[i])]
    IN  [h1      |-> slot(p, 6, Fallback_h1),
         p12     |-> slot(p, 8, Fallback_p12),
         bullets |-> slot(p, 9, Fallback_bullets),
         h2      |-> slot(p, 10, Fallback_h2),
         p21     |-> slot(p, 11, Fallback_p21),
         p22     |-> slot(p, 12, Fallback_p22),
         p23     |-> slot(p, 13, Fallback_p23),
         h3      |-> slot(p, 14, Fallback_h3),
         p31     |-> slot(p, 15, Fallback_p31),
         p32     |-> slot(p, 16, Fallback_p32),
         h4      |-> slot(p, 17, Fallback_h4),
         p41     |-> slot(p, 18, Fallback_p41),
         p42     |-> slot(p, 19, Fallback_p42),
         p43     |-> slot(p, 20, Fallback_p43),
         h5      |-> slot(p, 21, Fallback_h5)]

-----------------------------------------------------------------------------
\* Document renderer. A document is the sequence of its paragraphs; a
\* paragraph keeps its text (the concatenation of its runs) and its format.

\* add_para(doc, text, align=, bold=, size=, before=, after=, first_indent=)
add_para(d, text, align, bold, size, before, after, first_indent) ==
    Append(d, [text |-> text, align |-> align, bold |-> bold, size |-> size,
               before |-> before, after |-> after, first_indent |-> first_indent])

\* add_two_col(doc, left, right, bold=, after=): the runs left, "\t", right.
add_two_col(d, left, right, bold, after) ==
    Append(d, [text |-> left \o <<TAB>> \o right, align |-> "LEFT", bold |-> bold,
               size |-> 12, before |-> 0, after |-> after, first_indent |-> FALSE])

\* [x.strip(" -—\t") for x in re.split(r"[\n\r]+", bullets) if x.strip()]
bullet_items(bullets) ==
    LET kept == filter_nonblank(re_split(bullets, LineBreaks))
    IN  [i \in 1..Len(kept) |-> strip(kept[i], BulletStripChars)]

\* for item in items: add_para(doc, f"• {item}", after=2, first_indent=False)
RECURSIVE add_bullets(_, _)
add_bullets(d, items) ==
    IF items = <<>> THEN d
    ELSE add_bullets(add_para(d, <<8226, 32>> \o Head(items), "JUSTIFY", FALSE, 12, 0, 2, FALSE),
                     Tail(items))

\* The title without the space after the number sign.
title_of_no_space(a) == <<1044, 1086, 1087, 1086, 1083, 1085, 1080, 1090, 1077, 1083, 1100,
                          1085, 1086, 1077, 32, 1089, 1086, 1075, 1083, 1072, 1096, 1077, 1085,
                          1080, 1077, 32, 8470>> \o a.ds_no

title_of(a) == <<1044, 1086, 1087, 1086, 1083, 1085, 1080, 1090, 1077, 1083, 1100, 1085, 1086,
                 1077, 32, 1089, 1086, 1075, 1083, 1072, 1096, 1077, 1085, 1080, 1077, 32, 8470,
                 32>> \o a.ds_no

subtitle_of(a) ==
    <<1082, 32>> \o agreement_label_dative(a.agreement_kind) \o <<32, 8470, 32>> \o a.agreement_no
        \o <<32, 1086, 1090, 32>> \o a.agreement_date \o <<46>>

\* The city line: doc.add_paragraph() with one run, f"{city}\t{format_ru_date(sign_date)}".
city_line_of(a) ==
    [text |-> a.city \o <<TAB>> \o format_ru_date(a.sign_date), align |-> "NONE",
     bold |-> FALSE, size |-> 12, before |-> 0, after |-> 8, first_indent |-> FALSE]

intro_of(a) ==
    <<1048, 1085, 1076, 1080, 1074, 1080, 1076, 1091, 1072, 1083, 1100, 1085, 1099, 1081, 32,
      1087, 1088, 1077, 1076, 1087, 1088, 1080, 1085, 1080, 1084, 1072, 1090, 1077, 1083, 1100,
      32, 1047, 1072, 1084, 1103, 1090, 1080, 1085, 32, 1053, 1080, 1082, 1086, 1083, 1072,
      1081, 32, 1043, 1088, 1080, 1075, 1086, 1088, 1100, 1077, 1074, 1080, 1095, 32>>
        \o <<40, 1054, 1043, 1056, 1053, 1048, 1055, 32, 51, 49, 51, 53, 57, 48, 52, 51, 51,
             57, 48, 48, 48, 52, 53, 41, 44, 32, 1080, 1084, 1077, 1085, 1091, 1077, 1084, 1099,
             1081, 32, 1074, 32, 1076, 1072, 1083, 1100, 1085, 1077, 1081, 1096, 1077, 1084, 32,
             171, 1040, 1075, 1077, 1085, 1090, 187, 44, 32, 1089, 32, 1086, 1076, 1085, 1086,
             1081, 32, 1089, 1090, 1086, 1088, 1086, 1085, 1099, 44, 32>>
        \o <<1080, 32>> \o a.principal_full \o <<44, 32, 1074, 32, 1083, 1080, 1094, 1077, 32>> \o a.principal_position_intro
        \o <<32>> \o a.principal_signer_full \o <<44, 32>>
        \o a.acting_word \o <<32, 1085, 1072, 32, 1086, 1089, 1085, 1086, 1074, 1072, 1085,
                              1080, 1080, 32, 1059, 1089, 1090, 1072, 1074, 1072, 44, 32, 1080,
                              1084, 1077, 1085, 1091, 1077, 1084, 1086, 1077, 44, 32, 1074, 32,
                              1076, 1072, 1083, 1100, 1085, 1077, 1081, 1096, 1077, 1084, 32,
                              171, 1055, 1088, 1080, 1085, 1094, 1080, 1087, 1072, 1083, 187,
                              44, 32>>
        \o <<1089, 32, 1076, 1088, 1091, 1075, 1086, 1081, 32, 1089, 1090, 1086, 1088, 1086,
             1085, 1099, 44, 32, 1089, 1086, 1074, 1084, 1077, 1089, 1090, 1085, 1086, 32, 1080,
             1084, 1077, 1085, 1091, 1077, 1084, 1099, 1077, 32, 171, 1057, 1090, 1086, 1088,
             1086, 1085, 1099, 187, 44, 32, 1079, 1072, 1082, 1083, 1102, 1095, 1080, 1083,
             1080, 32, 1085, 1072, 1089, 1090, 1086, 1103, 1097, 1077, 1077, 32>>
        \o <<1044, 1086, 1087, 1086, 1083, 1085, 1080, 1090, 1077, 1083, 1100, 1085, 1086,
             1077, 32, 1089, 1086, 1075, 1083, 1072, 1096, 1077, 1085, 1080, 1077, 32, 8470>> \o a.ds_no
        \o <<32, 40, 1076, 1072, 1083, 1077, 1077, 32, 45, 32, 1057, 1086, 1075, 1083, 1072,
             1096, 1077, 1085, 1080, 1077, 41, 32, 1086, 32, 1085, 1080, 1078, 1077, 1089, 1083,
             1077, 1076, 1091, 1102, 1097, 1077, 1084, 58>>

p11_of(a) ==
    <<49, 46, 49, 46, 32, 1053, 1072, 1089, 1090, 1086, 1103, 1097, 1077, 1077, 32, 1044,
      1086, 1087, 1086, 1083, 1085, 1080, 1090, 1077, 1083, 1100, 1085, 1086, 1077, 32, 1089,
      1086, 1075, 1083, 1072, 1096, 1077, 1085, 1080, 1077, 32, 1088, 1077, 1075, 1091, 1083,
      1080, 1088, 1091, 1077, 1090, 32, 1087, 1086, 1088, 1103, 1076, 1086, 1082, 32, 1088,
      1072, 1089, 1095, 1105, 1090, 1086, 1074, 32, 1080, 32, 1086, 1082, 1072, 1079, 1072,
      1085, 1080, 1103, 32, 1091, 1089, 1083, 1091, 1075, 32, 1087, 1086, 32>>
        \o <<1089, 1086, 1087, 1088, 1086, 1074, 1086, 1078, 1076, 1077, 1085, 1080, 1102, 32,
             1086, 1073, 1103, 1079, 1072, 1090, 1077, 1083, 1100, 1085, 1086, 1081, 32, 1084,
             1072, 1088, 1082, 1080, 1088, 1086, 1074, 1082, 1080, 32, 1088, 1077, 1082, 1083,
             1072, 1084, 1099, 32, 40, 1076, 1072, 1083, 1077, 1077, 32, 8212, 32, 171, 1059,
             1089, 1083, 1091, 1075, 1080, 32, 1084, 1072, 1088, 1082, 1080, 1088, 1086, 1074,
             1082, 1080, 187, 41, 32, 1074, 32, 1088, 1072, 1084, 1082, 1072, 1093, 32>>
        \o agreement_label_genitive(a.agreement_kind) \o <<32, 8470, 8239>> \o a.agreement_no \o <<32>>
        \o <<1086, 1090, 32>> \o drop_last(format_ru_date(a.agreement_date), 5)
        \o <<32, 1075, 46, 32, 40, 1076, 1072, 1083, 1077, 1077, 32, 8212, 32, 171, 1044,
             1086, 1075, 1086, 1074, 1086, 1088, 187, 41, 46>>

\* The exception build_doc raises after the extraction, or "none": the dates
\* are phrased in the order sign_date (city line), agreement_date (p11).
build_doc_raises(a) ==
    IF format_ru_date_raises(a.sign_date) # "none"
    THEN format_ru_date_raises(a.sign_date)
    ELSE format_ru_date_raises(a.agreement_date)

\* The paragraphs of the document build_doc returns, in the order of its calls.
build_doc(a, t) ==
    LET d1 == add_para(<<>>, title_of(a), "CENTER", TRUE, 14, 0, 6, FALSE)
        d2 == add_para(d1, subtitle_of(a), "CENTER", FALSE, 12, 0, 10, FALSE)
        d3 == Append(d2, city_line_of(a))
        d4 == add_para(d3, intro_of(a), "JUSTIFY", FALSE, 12, 0, 8, TRUE)
        d5 == add_para(d4, t.h1, "LEFT", TRUE, 12, 8, 4, FALSE)
        d6 == add_para(d5, p11_of(a), "JUSTIFY", FALSE, 12, 0, 4, FALSE)
        d7 == add_para(d6, t.p12, "JUSTIFY", FALSE, 12, 0, 3, FALSE)
        d8 == add_bullets(d7, bullet_items(t.bullets))
        d9 == add_para(d8, t.h2, "LEFT", TRUE, 12, 8, 4, FALSE)
        d10 == add_para(d9, t.p21, "JUSTIFY", FALSE, 12, 0, 3, FALSE)
        d11 == add_para(d10, t.p22, "JUSTIFY", FALSE, 12, 0, 3, FALSE)
        d12 == add_para(d11, t.p23, "JUSTIFY", FALSE, 12, 0, 6, FALSE)
        d13 == add_para(d12, t.h3, "LEFT", TRUE, 12, 8, 4, FALSE)
        d14 == add_para(d13, t.p31, "JUSTIFY", FALSE, 12, 0, 3, FALSE)
        d15 == add_para(d14, t.p32, "JUSTIFY", FALSE, 12, 0, 6, FALSE)
        d16 == add_para(d15, t.h4, "LEFT", TRUE, 12, 8, 4, FALSE)
        d17 == add_para(d16, t.p41, "JUSTIFY", FALSE, 12, 0, 3, FALSE)
        d18 == add_para(d17, t.p42, "JUSTIFY", FALSE, 12, 0, 3, FALSE)
        d19 == add_para(d18, t.p43, "JUSTIFY", FALSE, 12, 0, 8, FALSE)
        d20 == add_para(d19, t.h5, "LEFT", TRUE, 12, 8, 4, FALSE)
        d21 == add_two_col(d20, <<1055, 1088, 1080, 1085, 1094, 1080, 1087, 1072, 1083>>, <<1040, 1075, 1077, 1085, 1090>>, TRUE, 4)
        d22 == add_two_col(d21, a.principal_short, <<1048, 1055, 32, 1047, 1072, 1084, 1103,
                                                     1090, 1080, 1085, 32, 1053, 1080, 1082,
                                                     1086, 1083, 1072, 1081, 32, 1043, 1088,
                                                     1080, 1075, 1086, 1088, 1100, 1077, 1074,
                                                     1080, 1095>>, FALSE, 2)
        d23 == add_two_col(d22, a.principal_position_sign, <<>>, FALSE, 8)
        d24 == add_two_col(d23, <<95, 95, 95, 95, 95, 95, 95, 95, 95, 95, 95, 95, 32, 1052,
                                  46, 1055, 46>>, <<95, 95, 95, 95, 95, 95, 95, 95, 95, 95,
                                                    95, 95, 32, 1052, 46, 1055, 46>>, FALSE, 2)
    IN  add_two_col(d24, a.principal_signer_short, <<1047, 1072, 1084, 1103, 1090, 1080, 1085,
                                                     32, 1053, 46, 1043, 46>>, FALSE, 0)

-----------------------------------------------------------------------------
\* Inputs of a run: the reference document, the parsed arguments, the file system.

\* The longest reference document has MaxParas paragraphs.
MaxParas == 23

\* Paragraph i (from 0) of the plain reference document: "P" and two digits,
\* a different text at every position.
plain_para(i) == <<80, 48 + (i \div 10), 48 + (i % 10)>>

plain_doc(n) == [i \in 1..n |-> plain_para(i - 1)]

\* Paragraph texts that exercise clean() and the bullet split: empty, blank,
\* with U+2028 and no-break spaces, with bullet markers at both ends of a line,
\* with a line of markers only, with blank lines and with "\r\n".
\* A bullets paragraph of four non-blank lines: markers at both ends of a
\* line, a line of one marker, a blank line, an empty line, "\r\n".
BulletsSample == <<8212, 32, 97, 59, 10, 8212, 32, 98, 32, 8212, 13, 10, 45, 10, 32, 10, 10,
                   99, 45, 100>>

SpecialTexts ==
    {<<>>,
     <<32, 160, 8232, 9>>,
     <<160, 32, 97, 8232, 98, 160, 99, 32, 8232>>,
     BulletsSample,
     <<8232, 8212, 160, 120, 8232, 8232, 45, 32, 121, 32, 45, 8232>>,
     <<112, 108, 97, 105, 110, 32, 116, 101, 120, 116>>}

\* The reference documents: up to MaxParas paragraphs, plain except at most
\* at one position.
RefDocs ==
    {plain_doc(n) : n \in 0..MaxParas}
        \cup UNION {{[plain_doc(n) EXCEPT ![j] = s] : j \in 1..n, s \in SpecialTexts} :
                    n \in 1..MaxParas}

GoodDate == <<49, 53, 46, 48, 51, 46, 50, 48, 50, 52>>

Days == {<<49, 53>>, <<53>>, <<97, 98>>}

Years == {<<50, 48, 50, 52>>, <<50, 52, 32>>}

ValidMonthCodes ==
    {<<48, 49>>, <<48, 50>>, <<48, 51>>, <<48, 52>>, <<48, 53>>, <<48, 54>>, <<48, 55>>, <<48, 56>>, <<48, 57>>, <<49, 48>>, <<49, 49>>, <<49, 50>>}

MonthCodes == ValidMonthCodes \cup {<<48, 48>>, <<49, 51>>, <<51>>, <<>>}

\* Dates of three dot-separated parts, and dates of one, two and four parts.
Dates ==
    {d \o <<DOT>> \o m \o <<DOT>> \o y : d \in Days, m \in MonthCodes, y \in Years}
        \cup {<<>>, <<49, 53, 45, 48, 51, 45, 50, 48, 50, 52>>, <<49, 53, 46, 48, 51>>, <<49, 53, 46, 48, 51, 46, 50, 48, 50,
                                                                                          52, 46>>}

\* <<sign_date, agreement_date>>: one of the two is any date of Dates, or both
\* are dates the phraser rejects.
DatePairs ==
    {<<d, GoodDate>> : d \in Dates} \cup {<<GoodDate, d>> : d \in Dates}
        \cup ({<<49, 53, 46, 49, 51, 46, 50, 48, 50, 52>>, <<49, 53, 46, 48, 51>>} \X {<<49, 53, 46, 49, 51, 46, 50, 48, 50,
                                                                                         52>>, <<49, 53, 46, 48, 51>>})

DsNos == {<<49>>, <<49, 50, 47, 1040>>}

\* The Namespace parse_args returns; agreement_kind is one of the two choices.
Args(ds_no, kind, sign_date, agreement_date) ==
    [ds_no |-> ds_no,
     agreement_kind |-> kind,
     agreement_no |-> <<65, 71, 45, 49>>,
     agreement_date |-> agreement_date,
     sign_date |-> sign_date,
     city |-> <<1075, 46, 32, 1055, 1077, 1088, 1084, 1100>>,
     principal_full |-> <<1054, 1054, 1054, 32, 171, 1056, 1086, 1084, 1072, 1096, 1082, 1072,
                          187>>,
     principal_short |-> <<1054, 1054, 1054, 32, 171, 1056, 1086, 1084, 1072, 1096, 1082,
                           1072, 187>>,
     principal_position_intro |-> <<1076, 1080, 1088, 1077, 1082, 1090, 1086, 1088, 1072>>,
     principal_position_sign |-> <<1044, 1080, 1088, 1077, 1082, 1090, 1086, 1088>>,
     principal_signer_full |-> <<1048, 1074, 1072, 1085, 1086, 1074, 1072, 32, 1048, 46, 1048,
                                 46>>,
     principal_signer_short |-> <<1048, 1074, 1072, 1085, 1086, 1074, 32, 1048, 46, 1048, 46>>,
     acting_word |-> <<1076, 1077, 1081, 1089, 1090, 1074, 1091, 1102, 1097, 1077, 1075, 1086>>]

AgreementKinds == {"agent", "contract"}

\* What the file system answers: the parent directory of the output is absent,
\* present, or cannot be created; the reference document opens or not; the
\* output file can be written or not.
Envs == [parent : {"absent", "present", "blocked"}, open_ok : BOOLEAN, save_ok : BOOLEAN]

EnvOk == [parent |-> "absent", open_ok |-> TRUE, save_ok |-> TRUE]

InitWith(rd, a, e) ==
    /\ pc = "mkdir"
    /\ args = a
    /\ env = e
    /\ refdoc = rd
    /\ template = <<>>
    /\ doc = <<>>
    /\ created = {}
    /\ err = "none"
    /\ stdout = <<>>

\* The state when main() has parsed its arguments.
Init ==
    \/ \E rd \in RefDocs :
          InitWith(rd, Args(<<49>>, "agent", GoodDate, GoodDate), EnvOk)
    \/ \E dp \in DatePairs, k \in AgreementKinds, n \in {MaxParas - 1, MaxParas} :
          InitWith(plain_doc(n), Args(<<49>>, k, dp[1], dp[2]), EnvOk)
    \/ \E e \in Envs, dn \in DsNos, k \in AgreementKinds,
          rd \in {plain_doc(3), plain_doc(MaxParas),
                  [plain_doc(MaxParas) EXCEPT ![10] = BulletsSample]},
          sd \in {GoodDate, <<49, 53, 46, 49, 51, 46, 50, 48, 50, 52>>} :
          InitWith(rd, Args(dn, k, sd, GoodDate), e)

-----------------------------------------------------------------------------
\* The run of main().

Fail(e) ==
    /\ pc' = "failed"
    /\ err' = e

\* The directory step also opening the output file for writing.
MkParent_touching_output ==
    /\ pc = "mkdir"
    /\ IF env.parent = "blocked"
       THEN Fail("mkdir") /\ UNCHANGED created
       ELSE /\ created' = IF env.parent = "absent"
                          THEN {"parent_dir", "output_file"} ELSE {"output_file"}
            /\ pc' = "extract"
            /\ UNCHANGED err
    /\ UNCHANGED <<args, env, refdoc, template, doc, stdout>>

\* out.parent.mkdir(parents=True, exist_ok=True)
MkParent ==
    /\ pc = "mkdir"
    /\ IF env.parent = "blocked"
       THEN Fail("mkdir") /\ UNCHANGED created
       ELSE /\ created' = IF env.parent = "absent" THEN {"parent_dir"} ELSE {}
            /\ pc' = "extract"
            /\ UNCHANGED err
    /\ UNCHANGED <<args, env, refdoc, template, doc, stdout>>

\* build_doc: template = extract_template_blocks(Path(args.template))
Extract ==
    /\ pc = "extract"
    /\ IF ~env.open_ok
       THEN Fail("open") /\ UNCHANGED template
       ELSE IF extract_raises(refdoc) # "none"
       THEN Fail(extract_raises(refdoc)) /\ UNCHANGED template
       ELSE /\ template' = extract_template_blocks(refdoc)
            /\ pc' = "render"
            /\ UNCHANGED err
    /\ UNCHANGED <<args, env, refdoc, doc, created, stdout>>

\* build_doc after the extraction, and doc = build_doc(args) in main.
Render ==
    /\ pc = "render"
    /\ IF build_doc_raises(args) # "none"
       THEN Fail(build_doc_raises(args)) /\ UNCHANGED doc
       ELSE /\ doc' = build_doc(args, template)
            /\ pc' = "save"
            /\ UNCHANGED err
    /\ UNCHANGED <<args, env, refdoc, template, created, stdout>>

\* doc.save(str(out)): a save that fails may leave a partial file or none.
Save ==
    /\ pc = "save"
    /\ IF ~env.save_ok
       THEN /\ Fail("save")
            /\ \E partial \in BOOLEAN :
                  created' = IF partial THEN created \cup {"partial_file"} ELSE created
       ELSE /\ created' = created \cup {"output_file"}
            /\ pc' = "print"
            /\ UNCHANGED err
    /\ UNCHANGED <<args, env, refdoc, template, doc, stdout>>

\* print(out)
PrintOut ==
    /\ pc = "print"
    /\ stdout' = Append(stdout, "output_path")
    /\ pc' = "done"
    /\ UNCHANGED <<args, env, refdoc, template, doc, created, err>>

Next == MkParent \/ Extract \/ Render \/ Save \/ PrintOut

Spec == Init /\ [][Next]_vars

-----------------------------------------------------------------------------
\* Properties of the extractor.

\* The extraction has returned its dictionary.
Extracted == DOMAIN template # {}

\* The position of the reference document each clause key is read from.
KeyPos ==
    [h1 |-> 6, p12 |-> 8, bullets |-> 9, h2 |-> 10, p21 |-> 11, p22 |-> 12,
     p23 |-> 13, h3 |-> 14, p31 |-> 15, p32 |-> 16, h4 |-> 17, p41 |-> 18,
     p42 |-> 19, p43 |-> 20, h5 |-> 21]

\* The fallback text of each clause key.
ClauseFallback ==
    [h1 |-> Fallback_h1, p12 |-> Fallback_p12, bullets |-> Fallback_bullets,
     h2 |-> Fallback_h2, p21 |-> Fallback_p21, p22 |-> Fallback_p22,
     p23 |-> Fallback_p23, h3 |-> Fallback_h3, p31 |-> Fallback_p31,
     p32 |-> Fallback_p32, h4 |-> Fallback_h4, p41 |-> Fallback_p41,
     p42 |-> Fallback_p42, p43 |-> Fallback_p43, h5 |-> Fallback_h5]

\* The paragraph of the reference document at position i (from 0).
RefPara(i) == refdoc[i + 1]

\* A text of whitespace only (the empty text included).
IsBlank(s) == \A i \in 1..Len(s) : s[i] \in Whitespace

\* C1 as stated: after the extraction every clause key is in the Clause Map
\* and is bound to non-empty text, whatever the reference document.
C1_EveryKeyNonEmpty ==
    Extracted =>
        \A k \in ClauseKeys : k \in DOMAIN template /\ template[k] # <<>>

\* C1, amended: after the extraction the Clause Map has exactly the fifteen
\* clause keys, and a key is bound to the empty text exactly when the reference
\* document has a paragraph at the key's position and that paragraph is blank.
C1_KeysPresentNonEmptyUnlessBlank ==
    Extracted =>
        /\ DOMAIN template = ClauseKeys
        /\ \A k \in ClauseKeys :
              (template[k] = <<>>) <=>
                  (Len(refdoc) > KeyPos[k] /\ IsBlank(RefPara(KeyPos[k])))

\* A reference document with a blank, non-empty paragraph at position 6 has
\* been extracted, and h1 is bound to the empty text.
C1_Witness ==
    /\ Extracted
    /\ Len(refdoc) > 6
    /\ RefPara(6) # <<>>
    /\ template.h1 = <<>>

\* C2: the extraction never raises IndexError, and after it every clause key
\* whose position the reference document does not reach (n <= i) is bound to
\* its fallback text, whatever the other keys are bound to; so a document of at
\* most 6 paragraphs gives the fallback text for every key.
C2_FallbackWhenShort ==
    /\ err # "IndexError"
    /\ Extracted =>
          \A k \in ClauseKeys :
              Len(refdoc) <= KeyPos[k] => template[k] = ClauseFallback[k]

\* A reference document of 9 paragraphs has been extracted: p12 comes from the
\* document, bullets from the fallback.
C2_Witness ==
    /\ Extracted
    /\ Len(refdoc) = 9
    /\ template.p12 = RefPara(8)
    /\ template.bullets = Fallback_bullets
    /\ template.h5 = Fallback_h5

\* The cleaning C3 describes, as a relation: r is s with every U+2028 replaced
\* by a newline and every no-break space by a space, cut to the part between
\* its first and its last character that is not whitespace.
IsCleaned(r, s) ==
    LET n == [i \in 1..Len(s) |->
                 IF s[i] = 8232 THEN 10 ELSE IF s[i] = 160 THEN 32 ELSE s[i]]
    IN  \E a \in 0..Len(n) : \E b \in a..Len(n) :
           /\ r = SubSeq(n, a + 1, b)
           /\ \A i \in 1..a : n[i] \in Whitespace
           /\ \A i \in (b + 1)..Len(n) : n[i] \in Whitespace
           /\ r # <<>> => (r[1] \notin Whitespace /\ r[Len(r)] \notin Whitespace)

\* C3: for a reference document of at least 22 paragraphs, every clause key is
\* bound to the cleaned text of the paragraph at its position.
C3_CanonicalValuesAreCleanedParagraphs ==
    (Extracted /\ Len(refdoc) >= 22) =>
        \A k \in ClauseKeys : IsCleaned(template[k], RefPara(KeyPos[k]))

\* A canonical reference document whose paragraph 15 needs cleaning has been
\* extracted: p31 differs from the raw paragraph.
C3_Witness ==
    /\ Extracted
    /\ Len(refdoc) >= 22
    /\ 8232 \in {RefPara(15)[i] : i \in 1..Len(RefPara(15))}
    /\ template.p31 # RefPara(15)
    /\ template.p31 # <<>>

-----------------------------------------------------------------------------
\* Properties of the renderer and of the run.

\* build_doc has returned the document to main.
DocBuilt == doc # <<>>

\* The number of lines of s that are not blank: the characters that are not
\* whitespace and have only whitespace before them on their line.
NonBlankLineCount(s) ==
    Cardinality({i \in 1..Len(s) :
        /\ s[i] \notin Whitespace
        /\ \A j \in 1..(i - 1) :
              (\A l \in j..(i - 1) : s[l] \notin {10, 13}) => s[j] \in Whitespace})

\* C4: for a reference document with the canonical layout, the document
\* build_doc returns has 1 title + 1 subtitle + 1 city line + 1 intro +
\* 5 headings + 10 body paragraphs + one paragraph per bullet item +
\* 5 signature rows, and its first paragraph is the title text followed by the
\* document number.
C4_ParagraphCountAndTitle ==
    (DocBuilt /\ Len(refdoc) >= 22) =>
        /\ Len(doc) = 1 + 1 + 1 + 1 + 5 + 10 + NonBlankLineCount(template.bullets) + 5
        /\ doc[1].text = <<1044, 1086, 1087, 1086, 1083, 1085, 1080, 1090, 1077, 1083, 1100,
                           1085, 1086, 1077, 32, 1089, 1086, 1075, 1083, 1072, 1096, 1077, 1085,
                           1080, 1077, 32, 8470, 32>> \o args.ds_no

\* A run on a canonical reference document whose bullets paragraph has four
\* non-blank lines has ended: 28 paragraphs, the title with the number "12/А".
C4_Witness ==
    /\ pc = "done"
    /\ Len(refdoc) >= 22
    /\ args.ds_no = <<49, 50, 47, 1040>>
    /\ Len(doc) = 28
    /\ doc[1].text = <<1044, 1086, 1087, 1086, 1083, 1085, 1080, 1090, 1077, 1083, 1100, 1085,
                       1086, 1077, 32, 1089, 1086, 1075, 1083, 1072, 1096, 1077, 1085, 1080,
                       1077, 32, 8470, 32, 49, 50, 47, 1040>>

\* C5 as stated: whatever the run has created on disk, and any failure of the
\* output path (the directory cannot be created, the file cannot be written),
\* comes only when the whole document has been built.
C5_OutputPathOnlyAfterConstruction ==
    (created # {} \/ err \in {"mkdir", "save"}) => DocBuilt

\* C5, amended: the output file is written, and a failure to write it
\* surfaces, only when the whole document has been built, so a run that fails
\* before that leaves no output file; the parent directory is created first,
\* before the reference document is read: a failure to create it ends the run
\* with nothing read or created, and a run that fails later may leave the
\* created directory, and nothing else, on disk.
C5_SaveOnlyAfterConstruction ==
    /\ (created \cap {"output_file", "partial_file"} # {} \/ err = "save") => DocBuilt
    /\ ~DocBuilt => created \subseteq {"parent_dir"}
    /\ err = "mkdir" => (pc = "failed" /\ ~Extracted /\ ~DocBuilt /\ created = {})
    /\ (pc \notin {"mkdir", "failed"} /\ env.parent = "absent") => "parent_dir" \in created
    /\ "output_file" \in created => pc \in {"print", "done"}

\* A run has built the whole document, failed to write the output file and
\* left only the directory it created.
C5_Witness ==
    /\ pc = "failed"
    /\ err = "save"
    /\ DocBuilt
    /\ created = {"parent_dir"}

\* The number of "." in a date.
DotCount(d) == Cardinality({i \in 1..Len(d) : d[i] = 46})

\* The part of a date between its first and its second ".".
MiddlePart(d) ==
    LET dots == {i \in 1..Len(d) : d[i] = 46}
        i1 == CHOOSE i \in dots : \A j \in dots : i <= j
        i2 == CHOOSE i \in dots \ {i1} : \A j \in dots \ {i1} : i <= j
    IN  SubSeq(d, i1 + 1, i2 - 1)

\* The part before the first "." and the part after the last.
FirstPart(d) ==
    LET dots == {i \in 1..Len(d) : d[i] = 46}
    IN  SubSeq(d, 1, (CHOOSE i \in dots : \A j \in dots : i <= j) - 1)

LastPart(d) ==
    LET dots == {i \in 1..Len(d) : d[i] = 46}
    IN  SubSeq(d, (CHOOSE i \in dots : \A j \in dots : j <= i) + 1, Len(d))

\* The two-digit code of month m.
MonthCode(m) == <<48 + (m \div 10), 48 + (m % 10)>>

IsDigits(s) == \A i \in 1..Len(s) : s[i] \in 48..57

\* DD.MM.YYYY with a month code of "01".."12".
IsDDMMYYYY(d) ==
    /\ DotCount(d) = 2
    /\ Len(FirstPart(d)) = 2 /\ IsDigits(FirstPart(d))
    /\ MiddlePart(d) \in {MonthCode(m) : m \in 1..12}
    /\ Len(LastPart(d)) = 4 /\ IsDigits(LastPart(d))

\* The dates the phraser rejects: not three parts, or no month code of "01".."12".
IsRejected(d) ==
    \/ DotCount(d) # 2
    \/ MiddlePart(d) \notin {MonthCode(m) : m \in 1..12}

\* C6 as stated: when a date is not DD.MM.YYYY with a month code of "01".."12",
\* no document is returned, no output file is saved and the run does not finish.
C6_MalformedDateNeverFinishes ==
    (~IsDDMMYYYY(args.sign_date) \/ ~IsDDMMYYYY(args.agreement_date)) =>
        /\ ~DocBuilt
        /\ "output_file" \notin created
        /\ pc \notin {"save", "print", "done"}

\* C6, amended: when a date does not split on "." into three parts or its
\* middle part is no month code of "01".."12", no document is returned, no
\* output file is saved, and a run that has extracted the template fails with
\* the phraser's ValueError or KeyError; a date of three parts with a month
\* code of "01".."12" never makes the phraser fail, whatever its day and year.
C6_RejectedDateNeverFinishes ==
    LET bad == IsRejected(args.sign_date) \/ IsRejected(args.agreement_date)
    IN  /\ bad =>
              /\ ~DocBuilt
              /\ "output_file" \notin created
              /\ pc \notin {"save", "print", "done"}
              /\ (pc = "failed" /\ Extracted) => err \in {"ValueError", "KeyError"}
        /\ ~bad => err \notin {"ValueError", "KeyError"}

\* A run whose agreement date has the month code "13" has failed in the
\* phraser with KeyError after the signing date was phrased.
C6_Witness ==
    /\ pc = "failed"
    /\ err = "KeyError"
    /\ args.sign_date = <<49, 53, 46, 48, 51, 46, 50, 48, 50, 52>>
    /\ args.agreement_date = <<49, 53, 46, 49, 51, 46, 50, 48, 50, 52>>
    /\ ~DocBuilt
    /\ created = {"parent_dir"}

-----------------------------------------------------------------------------
\* Properties of the localization helpers, read off the rendered document.

\* The genitive month names in calendar order.
RuMonthNames ==
    <<<<1103, 1085, 1074, 1072, 1088, 1103>>, <<1092, 1077, 1074, 1088, 1072, 1083, 1103>>, <<1084, 1072, 1088, 1090, 1072>>, <<1072, 1087, 1088, 1077, 1083, 1103>>, <<1084, 1072, 1103>>, <<1080, 1102, 1085, 1103>>, <<1080, 1102, 1083, 1103>>,
      <<1072, 1074, 1075, 1091, 1089, 1090, 1072>>, <<1089, 1077, 1085, 1090, 1103, 1073,
                                                      1088, 1103>>, <<1086, 1082, 1090, 1103, 1073, 1088,
                                                                      1103>>, <<1085, 1086, 1103, 1073, 1088, 1103>>, <<1076, 1077, 1082, 1072, 1073, 1088,
                                                                                                                        1103>>>>

\* C7: when the signing date is D.MM.YYYY with MM the code of month m, the
\* phrase on the city line is «D» <m-th genitive month name> YYYY года, with D
\* and YYYY copied as they are; the table has the twelve codes "01".."12" and
\* twelve different names.
C7_DatePhrase ==
    /\ DOMAIN MONTHS = {MonthCode(m) : m \in 1..12}
    /\ Cardinality({MONTHS[c] : c \in DOMAIN MONTHS}) = 12
    /\ DocBuilt =>
          \A m \in 1..12 :
              MiddlePart(args.sign_date) = MonthCode(m) =>
                  doc[3].text =
                      args.city \o <<9>> \o <<171>> \o FirstPart(args.sign_date) \o <<187, 32>>
                          \o RuMonthNames[m] \o <<32>> \o LastPart(args.sign_date)
                          \o <<32, 1075, 1086, 1076, 1072>>

\* A run whose signing date is "15.03.2024" has rendered the city line
\* "г. Пермь\t«15» марта 2024 года".
C7_Witness ==
    /\ DocBuilt
    /\ args.sign_date = <<49, 53, 46, 48, 51, 46, 50, 48, 50, 52>>
    /\ doc[3].text = <<1075, 46, 32, 1055, 1077, 1088, 1084, 1100, 9, 171, 49, 53, 187, 32,
                       1084, 1072, 1088, 1090, 1072, 32, 50, 48, 50, 52, 32, 1075, 1086, 1076,
                       1072>>

\* s has w as a contiguous part.
Contains(s, w) ==
    \E off \in 0..(Len(s) - Len(w)) : SubSeq(s, off + 1, off + Len(w)) = w

\* C8: the selector never fails and gives, for "agent", the dative "агентскому
\* договору" in the subtitle and the genitive "агентского договора" in
\* paragraph 1.1, for "contract" the forms "договору" and "договора"; the two
\* agreement types give different phrases in each case.
C8_CaseSelector ==
    /\ agreement_label_dative("agent") # agreement_label_dative("contract")
    /\ agreement_label_genitive("agent") # agreement_label_genitive("contract")
    /\ DocBuilt =>
          LET dative == IF args.agreement_kind = "agent"
                        THEN <<1072, 1075, 1077, 1085, 1090, 1089, 1082, 1086, 1084, 1091, 32,
                               1076, 1086, 1075, 1086, 1074, 1086, 1088, 1091>> ELSE <<1076, 1086, 1075, 1086, 1074, 1086,
                                                                                       1088, 1091>>
              genitive == IF args.agreement_kind = "agent"
                          THEN <<1072, 1075, 1077, 1085, 1090, 1089, 1082, 1086, 1075, 1086,
                                 32, 1076, 1086, 1075, 1086, 1074, 1086, 1088, 1072>> ELSE <<1076, 1086, 1075, 1086, 1074, 1086,
                                                                                             1088, 1072>>
          IN  /\ doc[2].text =
                    <<1082, 32>> \o dative \o <<32, 8470, 32>> \o args.agreement_no \o <<32, 1086, 1090, 32>>
                        \o args.agreement_date \o <<46>>
              /\ Contains(doc[6].text, <<32, 1074, 32, 1088, 1072, 1084, 1082, 1072, 1093, 32>> \o genitive \o <<32, 8470>>)

\* A run for a "contract" agreement has rendered the subtitle with "договору"
\* and paragraph 1.1 with "договора".
C8_Witness ==
    /\ pc = "done"
    /\ args.agreement_kind = "contract"
    /\ doc[2].text = <<1082, 32, 1076, 1086, 1075, 1086, 1074, 1086, 1088, 1091, 32, 8470, 32,
                       65, 71, 45, 49, 32, 1086, 1090, 32, 49, 53, 46, 48, 51, 46, 50, 48, 50,
                       52, 46>>
    /\ Contains(doc[6].text, <<32, 1074, 32, 1088, 1072, 1084, 1082, 1072, 1093, 32, 1076,
                               1086, 1075, 1086, 1074, 1086, 1088, 1072, 32, 8470>>)

\* The bullet paragraphs of the rendered document: those after the first seven
\* paragraphs and before the last seventeen; and their items, without "• ".
BulletCount == Len(doc) - 24

BulletItem(i) == SubSeq(doc[7 + i].text, 3, Len(doc[7 + i].text))

\* C9: the fallback bullets string gives exactly four bullet paragraphs; no
\* item begins with a bullet marker or has whitespace at either end, and the
\* split-and-strip step applied to an item gives that item alone.
C9_FallbackBulletsSplit ==
    (DocBuilt /\ template.bullets = Fallback_bullets) =>
        /\ BulletCount = 4
        /\ \A i \in 1..BulletCount :
              LET item == BulletItem(i)
              IN  /\ doc[7 + i].text = <<8226, 32>> \o item
                  /\ item # <<>>
                  /\ item[1] \notin {45, 8212, 8226}
                  /\ item[1] \notin Whitespace
                  /\ item[Len(item)] \notin Whitespace
                  /\ bullet_items(item) = <<item>>

\* A run on a reference document of 9 paragraphs, which has no bullets
\* paragraph, has rendered four bullets, the first of them "• администрирование
\* размещений, подлежащих обязательной маркировке;".
C9_Witness ==
    /\ DocBuilt
    /\ Len(refdoc) = 9
    /\ template.bullets = Fallback_bullets
    /\ Len(doc) = 28
    /\ doc[8].text = <<8226, 32, 1072, 1076, 1084, 1080, 1085, 1080, 1089, 1090, 1088, 1080,
                       1088, 1086, 1074, 1072, 1085, 1080, 1077, 32, 1088, 1072, 1079, 1084,
                       1077, 1097, 1077, 1085, 1080, 1081, 44, 32, 1087, 1086, 1076, 1083, 1077,
                       1078, 1072, 1097, 1080, 1093, 32, 1086, 1073, 1103, 1079, 1072, 1090,
                       1077, 1083, 1100, 1085, 1086, 1081, 32, 1084, 1072, 1088, 1082, 1080,
                       1088, 1086, 1074, 1082, 1077, 59>>

\* The lines of s, as pairs <<first, last>> of positions: the maximal runs of
\* characters that are no line break.
LineSpans(s) ==
    {sp \in (1..Len(s)) \X (1..Len(s)) :
        /\ sp[1] <= sp[2]
        /\ \A i \in sp[1]..sp[2] : s[i] \notin {10, 13}
        /\ sp[1] = 1 \/ s[sp[1] - 1] \in {10, 13}
        /\ sp[2] = Len(s) \/ s[sp[2] + 1] \in {10, 13}}

\* The lines that are not blank.
NonBlankSpans(s) == {sp \in LineSpans(s) : \E i \in sp[1]..sp[2] : s[i] \notin Whitespace}

\* The i-th of a set of lines, in the order of the text.
NthSpan(spans, i) ==
    CHOOSE sp \in spans : Cardinality({q \in spans : q[1] < sp[1]}) = i - 1

\* The bullet markers and whitespace an item is stripped of.
Markers == {32, 45, 8212, 9}

\* The line sp of s without its leading markers.
WithoutLeadingMarkers(s, sp) ==
    LET keep == {i \in sp[1]..sp[2] : s[i] \notin Markers}
    IN  IF keep = {} THEN <<>>
        ELSE SubSeq(s, CHOOSE i \in keep : \A j \in keep : i <= j, sp[2])

\* The line sp of s without its leading and its trailing markers.
WithoutMarkersAtEnds(s, sp) ==
    LET keep == {i \in sp[1]..sp[2] : s[i] \notin Markers}
    IN  IF keep = {} THEN <<>>
        ELSE SubSeq(s, CHOOSE i \in keep : \A j \in keep : i <= j,
                       CHOOSE i \in keep : \A j \in keep : j <= i)

\* C10 as stated: there is one bullet paragraph per line of the bullets clause,
\* in order; an item is its line without the leading markers and whitespace,
\* the rest of the line kept to its end; no item is empty.
C10_ItemsKeepLineEndings ==
    DocBuilt =>
        LET lines == LineSpans(template.bullets)
        IN  /\ BulletCount = Cardinality(lines)
            /\ \A i \in 1..BulletCount :
                  /\ BulletItem(i) =
                         WithoutLeadingMarkers(template.bullets, NthSpan(lines, i))
                  /\ BulletItem(i) # <<>>

\* C10, amended: there is one bullet paragraph per non-blank line of the
\* bullets clause, in order; an item is its line without the spaces, tabs,
\* hyphens and em dashes at its start and at its end, and is empty when the
\* line holds nothing else.
C10_ItemsStrippedAtBothEnds ==
    DocBuilt =>
        LET lines == NonBlankSpans(template.bullets)
        IN  /\ BulletCount = Cardinality(lines)
            /\ \A i \in 1..BulletCount :
                  /\ doc[7 + i].text = <<8226, 32>> \o BulletItem(i)
                  /\ BulletItem(i) =
                         WithoutMarkersAtEnds(template.bullets, NthSpan(lines, i))

\* A run whose bullets clause is "— a;\n— b —\r\n-\n \n\nc-d" has rendered the
\* four bullets "• a;", "• b", "• " and "• c-d".
C10_Witness ==
    /\ DocBuilt
    /\ template.bullets = BulletsSample
    /\ BulletCount = 4
    /\ doc[8].text = <<8226, 32, 97, 59>>
    /\ doc[9].text = <<8226, 32, 98>>
    /\ doc[10].text = <<8226, 32>>
    /\ doc[11].text = <<8226, 32, 99, 45, 100>>

====
